---- MODULE Spec2Model ----
(***************************************************************************)
(* Model of utils/github/__main__.py: the release-hygiene auditor.  The    *)
(* module body of the script is a straight-line program; every statement   *)
(* group is one action, sequenced by pc.  The two adapters (local.Local,   *)
(* query.Query) are imported by the script; their sources are not at hand, *)
(* so they are modelled from their documented contracts: the stable        *)
(* branches in ascending (year, number) order with fork points on the      *)
(* primary branch's history, a commit walk that yields from's ancestry     *)
(* without to and to's ancestry, newest first, and the pull requests       *)
(* merged since a commit.                                                  *)
(***************************************************************************)
EXTENDS Integers, Sequences, FiniteSets

\* ---------------------------------------------------------------- bounds
NumCommits == 3
MaxStables == 3
MaxNumber == 3
MaxPRs == 2

\* ------------------------------------------------------- program constants
CHECK_MARK == "CHECK_MARK"
CROSS_MARK == "CROSS_MARK"
AUTHOR_MARK == "AUTHOR_MARK"
ROBOT == "robot-clickhouse"
\* the prefix tested by label.startswith('pr-'), as a sequence of characters
PR_PREFIX == <<"p", "r", "-">>
\* the default of the -n flag
DEFAULT_NUMBER == 3
NO_STABLES_MSG == "No stable branches found!"

\* ------------------------------------------------------------ input sets
Commits == 1..NumCommits
\* author names, in ascending string order (the order sorted() uses)
NameOrder == <<"alice", "robot-clickhouse">>
Authors == {NameOrder[k] : k \in 1..Len(NameOrder)}
\* label sets, labels as character sequences
LabelSets == {{}, {<<"p", "r">>}, {<<"b", "u", "g">>, <<"p", "r", "-", "b">>}}
PRNumbers == 1..MaxPRs
\* values of the -n flag
Numbers == 0..MaxNumber
\* stable branch names YY.NUMBER as (year, number)
StableNames == {<<21, k>> : k \in 1..(MaxStables - 1)} \cup {<<22, 1>>}

VARIABLES
    parents,            \* repository: commit -> set of parent commits
    author,             \* repository: commit -> author name
    number,             \* args.number
    pc,                 \* position in the module body
    all_stables,        \* value returned by repo.get_stables()
    stables,
    first_commit,
    pull_requests,      \* dict, as the sequence of its items <<num, <<oid, labels>>>>
    good_commits,
    bad_commits,
    from_commit,
    i,                  \* loop variable of line 61 (1-based)
    bad_pull_requests,
    j,                  \* position of the loop of line 69 in pull_requests.items()
    stdout,
    stderr,
    exit_code,          \* -1 while running
    error,              \* "none" or the error class that ended the run
    calls,              \* adapter calls made so far, in order
    walks               \* the commits each repo.iterate() call yielded, in order

vars == <<parents, author, number, pc, all_stables, stables, first_commit,
          pull_requests, good_commits, bad_commits, from_commit, i,
          bad_pull_requests, j, stdout, stderr, exit_code, error, calls, walks>>

\* ------------------------------------------------------------- helpers
SetMax(S) == CHOOSE x \in S : \A y \in S : y <= x

RECURSIVE SortDesc(_)
SortDesc(S) == IF S = {} THEN <<>>
               ELSE LET m == SetMax(S) IN <<m>> \o SortDesc(S \ {m})

Range(s) == {s[k] : k \in 1..Len(s)}

\* (year, number) order on stable branch names
NameLess(a, b) == a[1] < b[1] \/ (a[1] = b[1] /\ a[2] < b[2])

\* Python s[start:] for any integer start
PySliceFrom(s, start) ==
    LET n == Len(s)
        a == IF start < 0 THEN (IF start + n < 0 THEN 0 ELSE start + n)
             ELSE (IF start > n THEN n ELSE start)
    IN SubSeq(s, a + 1, n)

\* str.startswith on character sequences
StartsWith(label, prefix) ==
    /\ Len(label) >= Len(prefix)
    /\ SubSeq(label, 1, Len(prefix)) = prefix

\* ------------------------------------------------- repository (adapter)
RECURSIVE Ancestry(_, _)
Ancestry(p, c) == {c} \cup UNION {Ancestry(p, d) : d \in p[c]}

HeadCommit == NumCommits

LinearHistory == [c \in Commits |-> IF c = 1 THEN {} ELSE {c - 1}]
\* commits 2 and 3 both fork from 1; every later commit merges the two
\* commits before it
MergeHistory == [c \in Commits |->
                    IF c = 1 THEN {}
                    ELSE IF c \in {2, 3} THEN {1}
                    ELSE {c - 1, c - 2}]
Histories == {LinearHistory, MergeHistory}

\* the hexadecimal id of commit c, as git and the hosting API both print it
Sha(c) == <<"sha", c>>

CommitObj(c) == [hexsha |-> Sha(c), author |-> author[c]]
\* str(commit): the commit id
Str(commit) == commit.hexsha

\* commits_between(from, to): from's ancestry without to and to's ancestry,
\* newest first
CommitsBetween(p, from, to) == SortDesc(Ancestry(p, from) \ Ancestry(p, to))

Iterate(from, to) ==
    LET ids == CommitsBetween(parents, from, to)
    IN [k \in 1..Len(ids) |-> CommitObj(ids[k])]

\* list_stable_branches(): (name, fork point) pairs ascending by
\* (year, number), every fork point on the primary branch's history
StableLists ==
    {s \in UNION {[1..n -> StableNames \X Ancestry(parents, HeadCommit)] : n \in 0..MaxStables} :
        \A k \in 1..(Len(s) - 1) : NameLess(s[k][1], s[k + 1][1])}

\* pull_requests_merged_since(commit): PR number -> (merge commit, labels),
\* merge commits reachable from head and at or after commit
PullRequestDicts(since) ==
    LET oids == (Ancestry(parents, HeadCommit) \ Ancestry(parents, since)) \cup {since}
        values == {Sha(c) : c \in oids} \X LabelSets
    IN {d \in UNION {[1..n -> PRNumbers \X values] : n \in 0..MaxPRs} :
            \A a, b \in 1..Len(d) : a # b => d[a][1] # d[b][1]}

\* --------------------------------------------------------------- program
Init ==
    /\ parents \in Histories
    /\ author \in [Commits -> Authors]
    /\ number \in Numbers
    /\ pc = "construct"
    /\ all_stables = <<>>
    /\ stables = <<>>
    /\ first_commit = 0
    /\ pull_requests = <<>>
    /\ good_commits = {}
    /\ bad_commits = <<>>
    /\ from_commit = 0
    /\ i = 0
    /\ bad_pull_requests = <<>>
    /\ j = 0
    /\ stdout = <<>>
    /\ stderr = <<>>
    /\ exit_code = -1
    /\ error = "none"
    /\ calls = <<>>
    /\ walks = <<>>

\* lines 44-45: github = query.Query(token); repo = local.Local(...)
Construct ==
    /\ pc = "construct"
    /\ calls' = Append(calls, <<"get_default_branch">>)
    /\ pc' = "get_stables"
    /\ UNCHANGED <<parents, author, number, all_stables, stables, first_commit,
                   pull_requests, good_commits, bad_commits, from_commit, i,
                   bad_pull_requests, j, stdout, stderr, exit_code, error, walks>>

\* line 47: the slice [-args.number:]
LastStables(ret, n) == PySliceFrom(ret, -n)

\* line 47: stables = repo.get_stables()[-args.number:]
GetStables ==
    /\ pc = "get_stables"
    /\ \E ret \in StableLists :
        /\ all_stables' = ret
        /\ stables' = LastStables(ret, number)
    /\ calls' = Append(calls, <<"get_stables">>)
    /\ pc' = "check_stables"
    /\ UNCHANGED <<parents, author, number, first_commit, pull_requests,
                   good_commits, bad_commits, from_commit, i, bad_pull_requests,
                   j, stdout, stderr, exit_code, error, walks>>

\* stable[1]: the fork point of a (branch, fork point) pair
ForkPoint(stable) == stable[2]

\* line 53
StableLine(stable) == <<CHECK_MARK, stable[1], "forked from", Sha(ForkPoint(stable))>>

\* the same exit, with status 0
NoStablesExitsZero ==
    /\ pc = "check_stables"
    /\ stables = <<>>
    /\ stderr' = Append(stderr, <<NO_STABLES_MSG>>)
    /\ exit_code' = 0
    /\ error' = "NoStableBranchesFound"
    /\ pc' = "done"
    /\ UNCHANGED <<parents, author, number, all_stables, stables, first_commit,
                   pull_requests, good_commits, bad_commits, from_commit, i,
                   bad_pull_requests, j, stdout, calls, walks>>

\* lines 48-49: sys.exit('No stable branches found!') writes the message to
\* stderr and exits with status 1
NoStables ==
    /\ pc = "check_stables"
    /\ stables = <<>>
    /\ stderr' = Append(stderr, <<NO_STABLES_MSG>>)
    /\ exit_code' = 1
    /\ error' = "NoStableBranchesFound"
    /\ pc' = "done"
    /\ UNCHANGED <<parents, author, number, all_stables, stables, first_commit,
                   pull_requests, good_commits, bad_commits, from_commit, i,
                   bad_pull_requests, j, stdout, calls, walks>>

\* lines 50-53: print the stable branches found
PrintStables ==
    /\ pc = "check_stables"
    /\ stables # <<>>
    /\ stdout' = stdout \o <<<<"Found stable branches:">>>>
                        \o [k \in 1..Len(stables) |-> StableLine(stables[k])]
    /\ pc' = "get_pull_requests"
    /\ UNCHANGED <<parents, author, number, all_stables, stables, first_commit,
                   pull_requests, good_commits, bad_commits, from_commit, i,
                   bad_pull_requests, j, stderr, exit_code, error, calls, walks>>

\* line 55: first_commit = stables[0][1]
FirstCommitNewest(st) == ForkPoint(st[Len(st)])
FirstCommit(st) == ForkPoint(st[1])

\* line 57: good_commits = set(oid[0] for oid in pull_requests.values())
GoodCommits(prs) == {prs[k][2][1] : k \in 1..Len(prs)}

\* lines 55-57
GetPullRequests ==
    /\ pc = "get_pull_requests"
    /\ first_commit' = FirstCommit(stables)
    /\ \E prs \in PullRequestDicts(FirstCommit(stables)) :
        /\ pull_requests' = prs
        /\ good_commits' = GoodCommits(prs)
    /\ calls' = Append(calls, <<"get_pull_requests", FirstCommit(stables)>>)
    /\ pc' = "get_head_commit"
    /\ UNCHANGED <<parents, author, number, all_stables, stables, bad_commits,
                   from_commit, i, bad_pull_requests, j, stdout, stderr,
                   exit_code, error, walks>>

\* lines 59-61: bad_commits = []; from_commit = repo.get_head_commit()
GetHeadCommit ==
    /\ pc = "get_head_commit"
    /\ bad_commits' = <<>>
    /\ from_commit' = HeadCommit
    /\ i' = Len(stables)
    /\ calls' = Append(calls, <<"get_head_commit">>)
    /\ pc' = "walk"
    /\ UNCHANGED <<parents, author, number, all_stables, stables, first_commit,
                   pull_requests, good_commits, bad_pull_requests, j, stdout,
                   stderr, exit_code, error, walks>>

\* line 63: the test that makes a commit bad
IsBadIgnoresGood(commit, good) == commit.author # ROBOT
IsBadIgnoresAuthor(commit, good) == Str(commit) \notin good
IsBadEither(commit, good) == Str(commit) \notin good \/ commit.author # ROBOT
IsBad(commit, good) == Str(commit) \notin good /\ commit.author # ROBOT

\* lines 62-64: the commits one walk appends
BadOf(walk, good) == SelectSeq(walk, LAMBDA commit : IsBad(commit, good))

\* line 66: from_commit = stables[i][1]
NextFromStale(st, k, from) == from
NextFrom(st, k, from) == ForkPoint(st[k])

\* lines 61-66: one iteration of the loop over reversed(range(len(stables)))
WalkSegment ==
    /\ pc = "walk"
    /\ i >= 1
    /\ bad_commits' = bad_commits
            \o BadOf(Iterate(from_commit, ForkPoint(stables[i])), good_commits)
    /\ calls' = Append(calls, <<"iterate", from_commit, ForkPoint(stables[i])>>)
    /\ walks' = Append(walks, CommitsBetween(parents, from_commit, ForkPoint(stables[i])))
    /\ from_commit' = NextFrom(stables, i, from_commit)
    /\ i' = i - 1
    /\ UNCHANGED <<parents, author, number, pc, all_stables, stables,
                   first_commit, pull_requests, good_commits, bad_pull_requests,
                   j, stdout, stderr, exit_code, error>>

\* line 61 exhausted; line 68: bad_pull_requests = []
WalkDone ==
    /\ pc = "walk"
    /\ i = 0
    /\ bad_pull_requests' = <<>>
    /\ j' = 1
    /\ pc' = "check_labels"
    /\ UNCHANGED <<parents, author, number, all_stables, stables, first_commit,
                   pull_requests, good_commits, bad_commits, from_commit, i,
                   stdout, stderr, exit_code, error, calls, walks>>

\* line 73: label.startswith('pr-')
IsPrLabelTwoChars(label) == StartsWith(label, SubSeq(PR_PREFIX, 1, 2))
IsPrLabel(label) == StartsWith(label, PR_PREFIX)

\* lines 70-75: label_found
LabelFound(labels) == \E label \in labels : IsPrLabel(label)

\* lines 69-78: one iteration of the loop over pull_requests.items()
CheckLabels ==
    /\ pc = "check_labels"
    /\ j <= Len(pull_requests)
    /\ bad_pull_requests' =
         IF LabelFound(pull_requests[j][2][2]) THEN bad_pull_requests
         ELSE Append(bad_pull_requests, pull_requests[j][1])
    /\ j' = j + 1
    /\ UNCHANGED <<parents, author, number, pc, all_stables, stables,
                   first_commit, pull_requests, good_commits, bad_commits,
                   from_commit, i, stdout, stderr, exit_code, error, calls, walks>>

\* line 83: the line printed for a bad pull request number
PullRequestLine(num) == <<CROSS_MARK, <<"int", num>>>>

\* lines 80-83: the header goes to sys.stderr, each number to print()'s
\* default stream, sys.stdout
ReportPullRequests ==
    /\ pc = "check_labels"
    /\ j > Len(pull_requests)
    /\ IF bad_pull_requests # <<>>
       THEN /\ stderr' = Append(stderr, <<"Pull-requests without description label:">>)
            /\ stdout' = stdout \o
                 LET nums == SortDesc(Range(bad_pull_requests))
                 IN [k \in 1..Len(nums) |-> PullRequestLine(nums[k])]
       ELSE UNCHANGED <<stdout, stderr>>
    /\ pc' = "report_commits"
    /\ UNCHANGED <<parents, author, number, all_stables, stables, first_commit,
                   pull_requests, good_commits, bad_commits, from_commit, i,
                   bad_pull_requests, j, exit_code, error, calls, walks>>

NameRank(name) == CHOOSE k \in 1..Len(NameOrder) : NameOrder[k] = name

\* line 95: sorted(bad_authors, key=lambda x : x.name)
RECURSIVE SortByName(_)
SortByName(S) ==
    IF S = {} THEN <<>>
    ELSE LET a == CHOOSE x \in S : \A y \in S : NameRank(x) <= NameRank(y)
         IN <<a>> \o SortByName(S \ {a})

\* the exit status of a script that runs to its end
ExitStatusGate(bad) == IF bad # <<>> THEN 1 ELSE 0
ExitStatusAtEnd(bad) == 0

\* lines 86-96, then the end of the script
ReportCommits ==
    /\ pc = "report_commits"
    /\ IF bad_commits # <<>>
       THEN /\ stderr' = stderr \o <<<<"Commits not referenced by any pull-request:">>>>
                          \o [k \in 1..Len(bad_commits) |-> <<CROSS_MARK, Str(bad_commits[k])>>]
            /\ stdout' = stdout
                 \o <<<<"Tell these authors not to push without pull-request and not to merge with rebase:">>>>
                 \o LET bad_authors == SortByName({bad_commits[k].author : k \in 1..Len(bad_commits)})
                    IN [k \in 1..Len(bad_authors) |-> <<AUTHOR_MARK, bad_authors[k]>>]
       ELSE UNCHANGED <<stdout, stderr>>
    /\ exit_code' = ExitStatusAtEnd(bad_commits)
    /\ pc' = "done"
    /\ UNCHANGED <<parents, author, number, all_stables, stables, first_commit,
                   pull_requests, good_commits, bad_commits, from_commit, i,
                   bad_pull_requests, j, error, calls, walks>>

\* the error class an adapter call raises
AdapterError(at) ==
    IF at \in {"construct", "get_pull_requests"} THEN "HostingAPIError"
    ELSE "RepositoryAccessError"
AdapterErrors == {"HostingAPIError", "RepositoryAccessError"}

\* an adapter call raises: nothing catches the exception, the traceback goes
\* to stderr and the interpreter exits with status 1
AdapterFails ==
    /\ pc \in {"construct", "get_stables", "get_pull_requests", "get_head_commit", "walk"}
    /\ pc = "walk" => i >= 1
    /\ error' = AdapterError(pc)
    /\ stderr' = Append(stderr, <<"Traceback", AdapterError(pc)>>)
    /\ exit_code' = 1
    /\ pc' = "done"
    /\ UNCHANGED <<parents, author, number, all_stables, stables, first_commit,
                   pull_requests, good_commits, bad_commits, from_commit, i,
                   bad_pull_requests, j, stdout, calls, walks>>

Next ==
    \/ Construct
    \/ GetStables
    \/ NoStables
    \/ PrintStables
    \/ GetPullRequests
    \/ GetHeadCommit
    \/ WalkSegment
    \/ WalkDone
    \/ CheckLabels
    \/ ReportPullRequests
    \/ ReportCommits
    \/ AdapterFails

Spec == Init /\ [][Next]_vars

\* the interpreter runs the script to its end: every enabled step is taken
FairInit ==
    /\ Init
    /\ number = DEFAULT_NUMBER
    /\ \A c \in Commits : author[c] = author[HeadCommit]

FairSpec == FairInit /\ [][Next]_vars /\ WF_vars(Next)

\* ---------------------------------------------------------------- claims
Finished == pc = "done" /\ error = "none"
StablesFound == stables # <<>>
WalksDone == StablesFound /\ Len(walks) = Len(stables)

\* each fork point is an ancestor of (or is) the next stable branch's
ChainOrdered(st) ==
    \A k \in 1..(Len(st) - 1) :
        ForkPoint(st[k]) \in Ancestry(parents, ForkPoint(st[k + 1]))

\* the audited span: head's ancestry without the oldest considered fork
\* point and its ancestry
Span == Ancestry(parents, HeadCommit) \ Ancestry(parents, ForkPoint(stables[1]))

SegmentsPartitionSpan ==
    /\ \A a, b \in 1..Len(walks) : a # b => Range(walks[a]) \cap Range(walks[b]) = {}
    /\ UNION {Range(walks[a]) : a \in 1..Len(walks)} = Span

\* C1 (as stated): once every segment is walked, the segments' commit sets
\* are pairwise disjoint and their union is the commit set of one walk from
\* head to stables[0]'s fork point, for every list of stable branches.
\* (Stated for -n >= 1, where line 47 keeps the last N entries.)
C1_PartitionAnyOrder == (WalksDone /\ number >= 1) => SegmentsPartitionSpan

\* C1 (amended): the same, for the lists whose fork points form an ancestry
\* chain in list order.
C1_PartitionOfChain == (WalksDone /\ ChainOrdered(stables)) => SegmentsPartitionSpan

C1_Witness ==
    /\ Finished
    /\ Len(stables) >= 2
    /\ ChainOrdered(stables)
    /\ \A a \in 1..Len(walks) : walks[a] # <<>>

Min(a, b) == IF a < b THEN a ELSE b

\* the last k entries of s
LastEntries(s, k) == SubSeq(s, Len(s) - k + 1, Len(s))

\* C2: after line 47 the considered list is exactly the last
\* min(N, length) entries of the list the adapter returned, for every
\* non-negative N.
C2_LastN ==
    (pc \notin {"construct", "get_stables"} /\ <<"get_stables">> \in Range(calls))
        => stables = LastEntries(all_stables, Min(number, Len(all_stables)))

\* C3: no commit whose id is in good_commits is in the bad-commit list.
C3_GoodNeverBad ==
    \A k \in 1..Len(bad_commits) : Str(bad_commits[k]) \notin good_commits

C3_Witness ==
    /\ Finished
    /\ bad_commits # <<>>
    /\ \E a \in 1..Len(walks) : \E c \in Range(walks[a]) :
            Sha(c) \in good_commits /\ author[c] # ROBOT

\* C4: no commit authored by 'robot-clickhouse' is in the bad-commit list.
C4_RobotNeverBad ==
    \A k \in 1..Len(bad_commits) : bad_commits[k].author # "robot-clickhouse"

C4_Witness ==
    /\ Finished
    /\ bad_commits # <<>>
    /\ \E a \in 1..Len(walks) : \E c \in Range(walks[a]) :
            Sha(c) \notin good_commits /\ author[c] = "robot-clickhouse"

Count(s, x) == Cardinality({k \in 1..Len(s) : s[k] = x})

HasPrDashLabel(labels) ==
    \E l \in labels : Len(l) >= 3 /\ l[1] = "p" /\ l[2] = "r" /\ l[3] = "-"

\* C5: once every pull request is examined, a pull request number is in
\* the bad-pull-request list exactly once if none of its labels starts with
\* 'pr-' and not at all otherwise; nothing else is listed.
C5_BadPullRequests ==
    (pc = "report_commits" \/ Finished) =>
        /\ \A k \in 1..Len(pull_requests) :
              Count(bad_pull_requests, pull_requests[k][1])
                 = IF HasPrDashLabel(pull_requests[k][2][2]) THEN 0 ELSE 1
        /\ Range(bad_pull_requests) \subseteq {pull_requests[k][1] : k \in 1..Len(pull_requests)}

C5_Witness ==
    /\ Finished
    /\ Len(pull_requests) = 2
    /\ Len(bad_pull_requests) = 1
    /\ \E k \in 1..2 : /\ pull_requests[k][2][2] = {<<"p", "r">>}
                       /\ pull_requests[k][1] \in Range(bad_pull_requests)

\* C6: when line 47 leaves no stable branch, the run is over at once with a
\* non-zero status: nothing is on stdout, stderr holds the message alone and
\* no pull request fetch, head lookup or commit walk was made.
C6_NoStablesIsFatal ==
    (<<"get_stables">> \in Range(calls) /\ stables = <<>> /\ pc # "check_stables") =>
        /\ pc = "done"
        /\ exit_code # 0
        /\ exit_code # -1
        /\ stdout = <<>>
        /\ stderr = <<<<"No stable branches found!">>>>
        /\ calls = <<<<"get_default_branch">>, <<"get_stables">>>>
        /\ walks = <<>>
        /\ bad_commits = <<>> /\ bad_pull_requests = <<>>

C6_Witness ==
    /\ pc = "done"
    /\ <<"get_stables">> \in Range(calls)
    /\ all_stables = <<>>
    /\ stables = <<>>

\* C7: when the bad-pull-request list is not empty at the end of the run,
\* every bad number's line is on stderr, in descending order, and none is on
\* stdout.
C7_BadPullRequestsOnStderr ==
    (Finished /\ bad_pull_requests # <<>>) =>
        /\ \A n \in Range(bad_pull_requests) :
              /\ PullRequestLine(n) \in Range(stderr)
              /\ PullRequestLine(n) \notin Range(stdout)
        /\ \A a, b \in 1..Len(stderr) :
              \A n, m \in Range(bad_pull_requests) :
                 (stderr[a] = PullRequestLine(n) /\ stderr[b] = PullRequestLine(m) /\ a < b)
                    => n > m

\* C8: once a stable branch is found the run ends, and unless an adapter
\* call failed it ends with status 0 whatever was found; a run that ends
\* with another status without an adapter failure found no stable branch.
C8_ExitsZero ==
    /\ StablesFound ~> (pc = "done" /\ (error \notin AdapterErrors => exit_code = 0))
    /\ [](pc = "done" /\ exit_code # 0 /\ error \notin AdapterErrors
            => (stables = <<>> /\ <<"get_stables">> \in Range(calls)))

C8_Witness ==
    /\ pc = "done"
    /\ exit_code = 0
    /\ bad_commits # <<>>
    /\ bad_pull_requests # <<>>

IsUnexplained(c) == Sha(c) \notin good_commits /\ author[c] # "robot-clickhouse"

\* the segment a commit of the span lies in: Len(stables) is the newest
SegmentOf(c) ==
    CHOOSE k \in 1..Len(stables) :
        /\ c \notin Ancestry(parents, ForkPoint(stables[k]))
        /\ c \in Ancestry(parents, IF k = Len(stables) THEN HeadCommit
                                   ELSE ForkPoint(stables[k + 1]))

BadCommitsCompleteOnce ==
    /\ \A c \in Commits :
          Count(bad_commits, CommitObj(c)) = IF c \in Span /\ IsUnexplained(c) THEN 1 ELSE 0
    /\ \A a, b \in 1..Len(bad_commits) :
          a < b => SegmentOf(bad_commits[a].hexsha[2]) >= SegmentOf(bad_commits[b].hexsha[2])

\* C9 (as stated): once every segment is walked, every commit of the span
\* from head to the oldest considered fork point that is in no pull request
\* and not by the robot is in the bad-commit list exactly once, the segments
\* contributing newest first, for every list of stable branches.
\* (Stated for -n >= 1, where line 47 keeps the last N entries.)
C9_CompleteAnyOrder ==
    (WalksDone /\ number >= 1) =>
        \A c \in Span : IsUnexplained(c) => Count(bad_commits, CommitObj(c)) = 1

\* C9 (amended): for the lists whose fork points form an ancestry chain in
\* list order, the bad-commit list holds exactly the unexplained commits of
\* the span, each once, the segments contributing newest first.
C9_CompleteOfChain == (WalksDone /\ ChainOrdered(stables)) => BadCommitsCompleteOnce

C9_Witness ==
    /\ Finished
    /\ ChainOrdered(stables)
    /\ Len(stables) >= 2
    /\ Len(bad_commits) >= 2
    /\ SegmentOf(bad_commits[1].hexsha[2]) # SegmentOf(bad_commits[2].hexsha[2])

\* the calls of a run that finds the stable branches st, in order
ExpectedCalls(st) ==
    <<<<"get_default_branch">>, <<"get_stables">>,
      <<"get_pull_requests", st[1][2]>>, <<"get_head_commit">>>>
    \o [k \in 1..Len(st) |->
          <<"iterate",
            IF k = 1 THEN HeadCommit ELSE st[Len(st) - k + 2][2],
            st[Len(st) - k + 1][2]>>]

IsPrefix(s, t) == Len(s) <= Len(t) /\ SubSeq(t, 1, Len(s)) = s

\* C10: in a run that finds a stable branch the adapter calls are, in this
\* order, one branch discovery, one pull request fetch with the fork point
\* of the first considered stable branch, the head lookup, and one walk per
\* considered stable branch, each starting where the previous one ended and
\* the first at head; a run still going (or cut short by an adapter failure)
\* has made a prefix of them.
C10_CallOrder ==
    StablesFound =>
        /\ IsPrefix(calls, ExpectedCalls(stables))
        /\ (pc \in {"check_labels", "report_commits"} \/ Finished)
              => calls = ExpectedCalls(stables)

C10_Witness ==
    /\ Finished
    /\ Len(stables) = 3
    /\ Len(calls) = 7
    /\ stables[1][2] # stables[3][2]

====
